---- MODULE Spec2Model ----
(***************************************************************************)
(* The Clue-less game engine of clueless/models.py as a state machine:     *)
(* one Game row, its Player, Turn, Action, DetectiveSheet and SheetItem    *)
(* rows, and the operations initializeGame, addPlayer, startGame,          *)
(* takeAction (on a Move, Suggestion or Accusation), endTurn and makeNote. *)
(* Every operation is one request that runs to completion on freshly       *)
(* loaded rows.  Rows are kept in creation (primary key) order, the order  *)
(* in which Player.objects.filter(...) yields them.                        *)
(***************************************************************************)
EXTENDS Integers, Sequences, FiniteSets, TLC

(* ------------------------------ bounds -------------------------------- *)
NumUsers == 2

NumCharacters == 4

NumWeapons == 2

NumRooms == 2

MaxTurns == 2

MaxActions == 2

MaxRotation == 5

GridMax == 3

NumRequests == 2

(* ------------------------- program constants -------------------------- *)
NOT_STARTED == 0

STARTED == 1

COMPLETE == 2

LOST == -1

NEITHER == 0

WON == 1

(* A null foreign key (Player.user, Player.currentGame, Game.currentTurn). *)
None == 0

(* The primary key of the one Game row of the model. *)
TheGame == 1

(* ------------------------------ registry ------------------------------ *)
Users == 1..NumUsers

(* Card rows in card_id order: characters, then weapons, then rooms. *)
Character == 1..NumCharacters

Weapon == (NumCharacters + 1)..(NumCharacters + NumWeapons)

Room == (NumCharacters + NumWeapons + 1)..(NumCharacters + NumWeapons + NumRooms)

Card == 1..(NumCharacters + NumWeapons + NumRooms)

(* Card.name: the registry gives every card its own name. *)
name(card) ==
    IF card \in Character THEN <<"Character", card>>
    ELSE IF card \in Weapon THEN <<"Weapon", card - NumCharacters>>
    ELSE <<"Room", card - NumCharacters - NumWeapons>>

(* Card.compare *)
CardCompare(card, otherCard) == name(card) = name(otherCard)

(* Room.id: the SpaceCollection primary key of a Room card. *)
RoomId(room) == room - NumCharacters - NumWeapons

(* The board is one row of spaces: rooms at even posX, a hallway between   *)
(* two neighbouring rooms.  Each room holds exactly one space.             *)
NumSpaces == 2 * NumRooms - 1

Spaces == 1..NumSpaces

Space(s) ==
    [posX |-> s - 1,
     posY |-> 0,
     spaceCollector |-> IF s % 2 = 1 THEN (s + 1) \div 2 ELSE NumRooms + (s \div 2)]

(* Space.objects.get that returns the first space of the board. *)
SpaceOfRoomFirst(room) == CHOOSE s \in Spaces : \A t \in Spaces : s <= t

(* Space.objects.get(spaceCollector = room) *)
SpaceOfRoom(room) == CHOOSE s \in Spaces : Space(s).spaceCollector = RoomId(room)

(* Character.defaultSpace *)
defaultSpace(c) == ((c - 1) % NumSpaces) + 1

(* WhoWhatWhere.compare without the weapon. *)
WhoWhatWhereCompareNoWeapon(self, other) ==
    LET roomEqual == CardCompare(self.room, other.room)
        charEqual == CardCompare(self.character, other.character)
    IN roomEqual /\ charEqual

(* WhoWhatWhere.compare *)
WhoWhatWhereCompare(self, other) ==
    LET roomEqual == CardCompare(self.room, other.room)
        charEqual == CardCompare(self.character, other.character)
        weaponEqual == CardCompare(self.weapon, other.weapon)
    IN roomEqual /\ charEqual /\ weaponEqual

(* Move.validate *)
MoveValidate(fromSpace, toSpace) ==
    \/ fromSpace.posX + 2 = toSpace.posX
    \/ fromSpace.posX - 2 = toSpace.posX
    \/ fromSpace.posY + 2 = toSpace.posY
    \/ fromSpace.posY - 2 = toSpace.posY

(* ------------------------------- state -------------------------------- *)
VARIABLES
    players,          \* Player rows: user, nonUserPlayer, currentSpace, currentGame, character, gameResult
    caseFile,         \* Game.caseFile: the WhoWhatWhere triple, or NoCaseFile before initializeGame
    status,           \* Game.status
    hostPlayer,       \* Game.hostPlayer: a Player id, None before initializeGame
    currentSequence,  \* Game.currentSequence
    currentTurn,      \* Game.currentTurn: a Turn id or None
    turns,            \* Turn rows: player
    actions,          \* Action rows: turn, cls; executed records what takeAction returned
    sheets,           \* DetectiveSheet rows: player, items (SheetItem per card)
    result,           \* the last operation and what it returned or raised
    moveCheck,        \* a Move between two grid spaces and what Move.validate returned
    requests          \* the requests in flight: each one's operation, position and loaded Game

vars == <<players, caseFile, status, hostPlayer, currentSequence, currentTurn,
          turns, actions, sheets, result, moveCheck, requests>>

gameVars == <<players, caseFile, status, hostPlayer, currentSequence, currentTurn,
              turns, actions, sheets, result>>

NoCaseFile == [character |-> None, weapon |-> None, room |-> None]

NoSpace == [posX |-> 0, posY |-> 0]

NoMove == [fromSpace |-> NoSpace, toSpace |-> NoSpace, validated |-> FALSE, valid |-> FALSE]

(* A request that has not been made, and no request in flight. *)
NoRequest ==
    [op |-> "none", pc |-> "idle", ret |-> "none",
     game |-> [status |-> NOT_STARTED, currentTurn |-> None, currentSequence |-> 0],
     player |-> [user |-> None, nonUserPlayer |-> FALSE, currentSpace |-> None,
                 currentGame |-> None, character |-> None, gameResult |-> NEITHER],
     whoWhatWhere |-> NoCaseFile]

NoRequests == [r \in 1..NumRequests |-> NoRequest]

(* Indices of a sequence that satisfy a test, in ascending order. *)
RECURSIVE FilterIdx(_, _, _)
FilterIdx(n, Test(_), acc) ==
    IF n = 0 THEN acc
    ELSE FilterIdx(n - 1, Test, IF Test(n) THEN <<n>> \o acc ELSE acc)

(* Player.objects.filter(currentGame = self): ids in primary key order. *)
PlayersOf(ps) ==
    LET InGame(i) == ps[i].currentGame = TheGame
    IN FilterIdx(Len(ps), InGame, <<>>)

Range(seq) == {seq[i] : i \in DOMAIN seq}

(* Game() as constructed and not yet initialized: the model fields' defaults. *)
Init ==
    /\ players = <<>>
    /\ caseFile = NoCaseFile
    /\ status = NOT_STARTED
    /\ hostPlayer = None
    /\ currentSequence = 0
    /\ currentTurn = None
    /\ turns = <<>>
    /\ actions = <<>>
    /\ sheets = <<>>
    /\ result = [op |-> "Game", ret |-> "ok"]
    /\ moveCheck = NoMove
    /\ requests = NoRequests

(* Player(user = u, character = c, currentSpace = c.defaultSpace) *)
NewPlayer(u, c) ==
    [user |-> u, nonUserPlayer |-> FALSE, currentSpace |-> defaultSpace(c),
     currentGame |-> None, character |-> c, gameResult |-> NEITHER]

(* Game.registerGameUpdate that leaves the sequence as it is. *)
registerGameUpdateNoIncrement(seq) == seq

(* Game.registerGameUpdate: the sequence after the update. *)
registerGameUpdate(seq) == seq + 1

(* CaseFile.createRandom: the triples random.randint can pick. *)
createRandom ==
    [character : Character, weapon : Weapon, room : Room]

(* Game.initializeGame(playerHost), playerHost a Player(u, c) the caller    *)
(* has saved; randCaseFile is what CaseFile.createRandom returned.         *)
initializeGame(u, c, randCaseFile) ==
    /\ hostPlayer = None
    /\ players' = Append(players, NewPlayer(u, c))
    /\ hostPlayer' = Len(players) + 1
    /\ status' = NOT_STARTED
    /\ caseFile' = randCaseFile
    /\ currentSequence' = registerGameUpdate(currentSequence)
    /\ result' = [op |-> "initializeGame", ret |-> "ok"]
    /\ UNCHANGED <<currentTurn, turns, actions, sheets, moveCheck, requests>>

(* Game.isUserInGame whose lookup always raises, which the bare except      *)
(* turns into False.                                                        *)
isUserInGameAlwaysRaising(ps, user) == FALSE

(* Game.isUserInGame: Player.objects.get raises unless exactly one row      *)
(* matches (and user.id raises for a null user); any exception gives False. *)
isUserInGame(ps, user) ==
    /\ user # None
    /\ Cardinality({i \in Range(PlayersOf(ps)) : ps[i].user = user}) = 1

(* Game.isCharacterInGame with count() > 1. *)
isCharacterInGameOffByOne(ps, character) ==
    Cardinality({i \in Range(PlayersOf(ps)) : ps[i].character = character}) > 1

(* Game.isCharacterInGame *)
isCharacterInGame(ps, character) ==
    Cardinality({i \in Range(PlayersOf(ps)) : ps[i].character = character}) > 0

(* SheetItem(detectiveSheet, card, checked = False, initiallyDealt = False) *)
DefaultItem == [checked |-> FALSE, initiallyDealt |-> FALSE, manuallyChecked |-> FALSE]

(* DetectiveSheet.addDefaultSheets over the Character cards only. *)
addDefaultSheetsCharactersOnly == [card \in Character |-> DefaultItem]

(* DetectiveSheet.addDefaultSheets: one SheetItem per Card. *)
addDefaultSheets == [card \in Card |-> DefaultItem]

(* DetectiveSheet.makeNote: the SheetItems of the sheet after the note. *)
NotedItems(items, card, checked, initiallyDealt, manuallyChecked) ==
    [items EXCEPT ![card] = [checked |-> checked, initiallyDealt |-> initiallyDealt,
                             manuallyChecked |-> manuallyChecked]]

(* Game.addPlayer(player): pid is the player's row, a new one when the     *)
(* player has not been saved yet.                                          *)
addPlayer(pid, player) ==
    /\ hostPlayer # None
    /\ IF isUserInGame(players, player.user)
       THEN /\ result' = [op |-> "addPlayer", ret |-> "DuplicateUser"]
            /\ UNCHANGED <<players, sheets, currentSequence>>
       ELSE IF isCharacterInGame(players, player.character)
       THEN /\ result' = [op |-> "addPlayer", ret |-> "DuplicateCharacter"]
            /\ UNCHANGED <<players, sheets, currentSequence>>
       ELSE /\ players' = [i \in 1..(IF pid > Len(players) THEN pid ELSE Len(players)) |->
                             IF i = pid THEN [player EXCEPT !.currentGame = TheGame]
                             ELSE players[i]]
            /\ sheets' = Append(sheets, [player |-> pid, items |-> addDefaultSheets])
            /\ currentSequence' = registerGameUpdate(currentSequence)
            /\ result' = [op |-> "addPlayer", ret |-> "ok"]
    /\ UNCHANGED <<caseFile, status, hostPlayer, currentTurn, turns, actions, moveCheck, requests>>

(* random.shuffle: the orders of n cards. *)
Shuffles(n) == {p \in [1..n -> 1..n] : \A i, j \in 1..n : p[i] = p[j] => i = j}

(* Game.unusedCharacters that returns every Character of the registry. *)
unusedCharactersOfRegistry(ps) == [c \in 1..NumCharacters |-> c]

(* Game.unusedCharacters, in card_id order. *)
unusedCharacters(ps) ==
    LET Unused(c) == \A i \in Range(PlayersOf(ps)) : ps[i].character # c
    IN FilterIdx(NumCharacters, Unused, <<>>)

(* The cards that are not in the case file, in card_id order. *)
NonCaseFileCards(cf) ==
    LET Out(card) == card # cf.character /\ card # cf.room /\ card # cf.weapon
    IN FilterIdx(NumCharacters + NumWeapons + NumRooms, Out, <<>>)

(* The dealing loop of startGame with dsIndex always 0. *)
DealToFirstSheet(shs, cardList, i) ==
    [shs EXCEPT ![1].items =
        [card \in Card |-> IF card \in Range(cardList)
                           THEN [checked |-> TRUE, initiallyDealt |-> TRUE,
                                 manuallyChecked |-> FALSE]
                           ELSE @[card]]]

(* The dealing loop of startGame: cardList[i] goes to sheet i % len(sheets). *)
RECURSIVE Deal(_, _, _)
Deal(shs, cardList, i) ==
    IF i > Len(cardList) THEN shs
    ELSE LET dsIndex == ((i - 1) % Len(shs)) + 1
         IN Deal([shs EXCEPT ![dsIndex].items = NotedItems(@, cardList[i], TRUE, TRUE, FALSE)],
                 cardList, i + 1)

(* Player(character = c, currentSpace = c.defaultSpace, currentGame = self, *)
(* nonUserPlayer = True)                                                    *)
NonUserPlayer(c) ==
    [user |-> None, nonUserPlayer |-> TRUE, currentSpace |-> defaultSpace(c),
     currentGame |-> TheGame, character |-> c, gameResult |-> NEITHER]

(* The checks of Game.startGame without the one of the status. *)
startGameRaisesIgnoringStatus(st, ps, host, user) ==
    IF Len(PlayersOf(ps)) < 2 THEN "InsufficientPlayers"
    ELSE IF ps[host].user # user THEN "NotHost"
    ELSE "none"

(* The checks of Game.startGame without the one of the requesting user. *)
startGameRaisesIgnoringHost(st, ps, host, user) ==
    IF st # 0 THEN "AlreadyStarted"
    ELSE IF Len(PlayersOf(ps)) < 2 THEN "InsufficientPlayers"
    ELSE "none"

(* The checks of Game.startGame: the error it raises, "none" when it goes on. *)
startGameRaises(st, ps, host, user) ==
    IF st # 0 THEN "AlreadyStarted"
    ELSE IF Len(PlayersOf(ps)) < 2 THEN "InsufficientPlayers"
    ELSE IF ps[host].user # user THEN "NotHost"
    ELSE "none"

(* Game.startGame that gives the first Turn to the last player of the       *)
(* roster instead of the host player.                                       *)
startGameTurnOfLastPlayer(user, shuffle) ==
    /\ hostPlayer # None
    /\ IF startGameRaises(status, players, hostPlayer, user) # "none"
       THEN /\ result' = [op |-> "startGame",
                          ret |-> startGameRaises(status, players, hostPlayer, user)]
            /\ UNCHANGED <<players, status, currentSequence, currentTurn, turns, sheets>>
       ELSE LET roster == PlayersOf(players)
                cards == NonCaseFileCards(caseFile)
                cardList == [i \in DOMAIN cards |-> cards[shuffle[i]]]
                unused == unusedCharacters(players)
            IN /\ status' = STARTED
               /\ turns' = Append(turns, [player |-> roster[Len(roster)]])
               /\ sheets' = Deal(sheets, cardList, 1)
               /\ players' = players \o [k \in DOMAIN unused |-> NonUserPlayer(unused[k])]
               /\ currentTurn' = Len(turns) + 1
               /\ currentSequence' = registerGameUpdate(currentSequence)
               /\ result' = [op |-> "startGame", ret |-> "ok"]
    /\ UNCHANGED <<caseFile, hostPlayer, actions, moveCheck, requests>>

(* Game.startGame(user); shuffle is the order random.shuffle produced. *)
startGame(user, shuffle) ==
    /\ hostPlayer # None
    /\ IF startGameRaises(status, players, hostPlayer, user) # "none"
       THEN /\ result' = [op |-> "startGame",
                          ret |-> startGameRaises(status, players, hostPlayer, user)]
            /\ UNCHANGED <<players, status, currentSequence, currentTurn, turns, sheets>>
       ELSE LET turn == Len(turns) + 1
                turns1 == Append(turns, [player |-> hostPlayer])
                cards == NonCaseFileCards(caseFile)
                cardList == [i \in DOMAIN cards |-> cards[shuffle[i]]]
                unused == unusedCharacters(players)
                players1 == players \o [k \in DOMAIN unused |-> NonUserPlayer(unused[k])]
                \* Player.objects.get(user = user, currentGame = self)
                found == {i \in Range(PlayersOf(players1)) : players1[i].user = user}
                \* Turn.objects.get(player = player, game = self)
                foundTurns == {t \in DOMAIN turns1 : turns1[t].player \in found}
            IN /\ status' = STARTED
               /\ turns' = turns1
               /\ sheets' = Deal(sheets, cardList, 1)
               /\ players' = players1
               /\ IF Cardinality(found) = 1 /\ Cardinality(foundTurns) = 1
                  THEN /\ currentTurn' = CHOOSE t \in foundTurns : TRUE
                       /\ currentSequence' = registerGameUpdate(currentSequence)
                       /\ result' = [op |-> "startGame", ret |-> "ok"]
                  ELSE /\ currentTurn' = turn
                       /\ UNCHANGED currentSequence
                       /\ result' = [op |-> "startGame", ret |-> "DoesNotExist"]
    /\ UNCHANGED <<caseFile, hostPlayer, actions, moveCheck, requests>>

(* DetectiveSheet.makeNote(card, checked, initiallyDealt, manuallyChecked)  *)
(* on the sheet row ds.                                                     *)
makeNote(ds, card, checked, initiallyDealt, manuallyChecked) ==
    /\ ds \in DOMAIN sheets
    /\ sheets' = [sheets EXCEPT ![ds].items =
                     NotedItems(@, card, checked, initiallyDealt, manuallyChecked)]
    /\ result' = [op |-> "makeNote", ret |-> "ok"]
    /\ UNCHANGED <<players, caseFile, status, hostPlayer, currentSequence, currentTurn,
                   turns, actions, moveCheck, requests>>

(* Player.compare *)
PlayerCompare(self, otherPlayer) == self.user = otherPlayer.user

(* The loop of Turn.endTurn: the player after the first one that compares   *)
(* equal to currentPlayer, None when the loop leaves next_player unbound.   *)
RECURSIVE NextPlayer(_, _, _, _)
NextPlayer(ps, roster, currentPlayer, i) ==
    IF i > Len(roster) THEN None
    ELSE IF PlayerCompare(ps[roster[i]], ps[currentPlayer])
         THEN roster[(i % Len(roster)) + 1]
         ELSE NextPlayer(ps, roster, currentPlayer, i + 1)

(* Turn.endTurn *)
endTurn ==
    /\ currentTurn # None
    /\ LET currentPlayer == turns[currentTurn].player
           next_player == NextPlayer(players, PlayersOf(players), currentPlayer, 1)
       IN IF next_player = None
          THEN /\ result' = [op |-> "endTurn", ret |-> "UnboundLocalError"]
               /\ UNCHANGED <<turns, currentTurn>>
          ELSE /\ turns' = Append(turns, [player |-> next_player])
               /\ currentTurn' = Len(turns) + 1
               /\ result' = [op |-> "endTurn", ret |-> "ok"]
    /\ UNCHANGED <<players, caseFile, status, hostPlayer, currentSequence, actions,
                   sheets, moveCheck, requests>>

(* Suggestion.createSuggestion: the Suggestion it saves. *)
createSuggestion(turn, suspect, room, weapon) ==
    [cls |-> "Suggestion", turn |-> turn,
     whoWhatWhere |-> [character |-> suspect, weapon |-> weapon, room |-> room],
     fromSpace |-> None, toSpace |-> None]

(* Accusation.createAccusation: the Accusation it saves. *)
createAccusation(turn, suspect, room, weapon) ==
    [cls |-> "Accusation", turn |-> turn,
     whoWhatWhere |-> [character |-> suspect, weapon |-> weapon, room |-> room],
     fromSpace |-> None, toSpace |-> None]

(* Move(turn, fromSpace, toSpace), saved by the caller. *)
createMove(turn, fromSpace, toSpace) ==
    [cls |-> "Move", turn |-> turn, whoWhatWhere |-> NoCaseFile,
     fromSpace |-> fromSpace, toSpace |-> toSpace]

(* <Class>.objects.filter(turn = self).count() *)
Count(rows, turn, classes) ==
    Cardinality({i \in DOMAIN rows : rows[i].turn = turn /\ rows[i].cls \in classes})

(* Turn.__validate_action with the Accusation count of a Suggestion taken  *)
(* as if it held the action itself (> 1 instead of > 0).                    *)
validate_action_counting_self(rows, action) ==
    IF action.cls = "Accusation"
    THEN ~(Count(rows, action.turn, {"Accusation"}) > 1)
    ELSE IF action.cls = "Suggestion"
    THEN IF Count(rows, action.turn, {"Suggestion"}) > 1 THEN FALSE
         ELSE IF Count(rows, action.turn, {"Accusation"}) > 1 THEN FALSE
         ELSE TRUE
    ELSE IF action.cls = "Move"
    THEN ~(Count(rows, action.turn, {"Accusation", "Suggestion", "Move"}) > 1)
    ELSE FALSE

(* Turn.__validate_action; rows holds the action itself, which was saved    *)
(* when it was created.                                                     *)
validate_action(rows, action) ==
    IF action.cls = "Accusation"
    THEN ~(Count(rows, action.turn, {"Accusation"}) > 1)
    ELSE IF action.cls = "Suggestion"
    THEN IF Count(rows, action.turn, {"Suggestion"}) > 1 THEN FALSE
         ELSE IF Count(rows, action.turn, {"Accusation"}) > 0 THEN FALSE
         ELSE TRUE
    ELSE IF action.cls = "Move"
    THEN ~(Count(rows, action.turn, {"Accusation", "Suggestion", "Move"}) > 1)
    ELSE FALSE

(* Suggestion.validate that accepts a Suggestion from any space. *)
SuggestionValidateAnywhere(ps, player, action) == TRUE

(* Suggestion.validate *)
SuggestionValidate(ps, player, action) ==
    ~(RoomId(action.whoWhatWhere.room) # Space(ps[player].currentSpace).spaceCollector)

(* Accusation.validate *)
AccusationValidate == TRUE

(* <Action subclass>.validate *)
validate(ps, player, action) ==
    IF action.cls = "Suggestion" THEN SuggestionValidate(ps, player, action)
    ELSE IF action.cls = "Accusation" THEN AccusationValidate
    ELSE MoveValidate(Space(action.fromSpace), Space(action.toSpace))

(* Game.isAccusationCorrect *)
isAccusationCorrect(cf, action) == WhoWhatWhereCompare(cf, action.whoWhatWhere)

(* Game.endGame that passes over the non-user players. *)
endGameUsersOnly(ps, winningPlayer) ==
    [i \in DOMAIN ps |->
        IF i = winningPlayer THEN [ps[i] EXCEPT !.gameResult = WON]
        ELSE IF ps[i].currentGame = TheGame /\ ~ps[i].nonUserPlayer
             THEN [ps[i] EXCEPT !.gameResult = LOST]
        ELSE ps[i]]

(* Game.endGame: the Player rows it leaves. *)
endGame(ps, winningPlayer) ==
    [i \in DOMAIN ps |->
        IF i = winningPlayer THEN [ps[i] EXCEPT !.gameResult = WON]
        ELSE IF ps[i].currentGame = TheGame THEN [ps[i] EXCEPT !.gameResult = LOST]
        ELSE ps[i]]

(* Game.loseGame: the Player rows it leaves. *)
loseGame(ps, losingPlayer) == [ps EXCEPT ![losingPlayer].gameResult = LOST]

(* Suggestion.performAction: the players holding the suggested character. *)
accusedPlayer(ps, action) ==
    {i \in Range(PlayersOf(ps)) : ps[i].character = action.whoWhatWhere.character}

(* Turn.takeAction(action), action saved by createSuggestion,               *)
(* createAccusation or the caller's Move.save().  The Action row keeps the  *)
(* turn and the class, the columns later calls read.                        *)
takeAction(action) ==
    /\ action.turn \in DOMAIN turns
    /\ LET row == [turn |-> action.turn, cls |-> action.cls, executed |-> FALSE]
           saved == Append(actions, row)
           done == Append(actions, [row EXCEPT !.executed = TRUE])
           player == turns[action.turn].player
           unable == /\ actions' = saved
                     /\ result' = [op |-> action.cls, ret |-> "Unable to perform action"]
                     /\ UNCHANGED <<players, status, currentSequence>>
       IN IF ~validate_action(saved, action) THEN unable
          ELSE IF ~validate(players, player, action) THEN unable
          ELSE IF action.cls = "Accusation"
          THEN /\ actions' = done
               /\ result' = [op |-> action.cls, ret |-> "ok"]
               /\ currentSequence' = registerGameUpdate(currentSequence)
               /\ IF isAccusationCorrect(caseFile, action)
                  THEN /\ players' = endGame(players, player)
                       /\ status' = COMPLETE
                  ELSE /\ players' = loseGame(players, player)
                       /\ UNCHANGED status
          ELSE IF action.cls = "Suggestion"
          THEN IF Cardinality(accusedPlayer(players, action)) # 1
               THEN /\ actions' = saved
                    /\ result' = [op |-> action.cls, ret |-> "DoesNotExist"]
                    /\ UNCHANGED <<players, status, currentSequence>>
               ELSE /\ actions' = done
                    /\ result' = [op |-> action.cls, ret |-> "ok"]
                    /\ players' = [players EXCEPT
                           ![CHOOSE i \in accusedPlayer(players, action) : TRUE].currentSpace =
                               SpaceOfRoom(action.whoWhatWhere.room)]
                    /\ UNCHANGED <<status, currentSequence>>
          ELSE /\ actions' = done
               /\ result' = [op |-> action.cls, ret |-> "ok"]
               /\ UNCHANGED <<players, status, currentSequence>>
    /\ UNCHANGED <<caseFile, hostPlayer, currentTurn, turns, sheets, moveCheck, requests>>

(* The orders of the shuffle that the game specification draws from. *)
ShuffleSample(n) == {[i \in 1..n |-> i], [i \in 1..n |-> (i % n) + 1]}

(* The case files that the game specification draws from. *)
CaseFileSample ==
    {cf \in createRandom :
        \/ cf.character = 1 /\ cf.weapon = NumCharacters + 1 /\ cf.room = NumCharacters + NumWeapons + 1
        \/ cf.character = NumCharacters /\ cf.weapon = NumCharacters + NumWeapons
              /\ cf.room = NumCharacters + NumWeapons + NumRooms}

(* Move.validate applied to a Move between two spaces of a grid. *)
validateMove ==
    /\ ~moveCheck.validated
    /\ moveCheck' = [moveCheck EXCEPT
                        !.validated = TRUE,
                        !.valid = MoveValidate(moveCheck.fromSpace, moveCheck.toSpace)]
    /\ UNCHANGED <<gameVars, requests>>

(* The user that creates the game: users are interchangeable, so the first. *)
HostUsers == {u \in Users : \A v \in Users : u <= v}

(* Creating and filling the game.  A user joins the game it hosts with the  *)
(* Player it hosts it with; every other user joins with a new Player.       *)
Lifecycle ==
    \/ \E u \in HostUsers, c \in Character, cf \in CaseFileSample : initializeGame(u, c, cf)
    \/ \E u \in Users \ HostUsers, c \in Character :
          addPlayer(Len(players) + 1, NewPlayer(u, c))
    \/ \E pid \in DOMAIN players : addPlayer(pid, players[pid])
    \/ \E user \in Users, shuffle \in ShuffleSample(Len(NonCaseFileCards(caseFile))) :
          startGame(user, shuffle)

(* The requests of a player; they act on the game's current turn. *)
makeSuggestion ==
    /\ Len(actions) < MaxActions
    /\ \E suspect \in Character, room \in Room, weapon \in Weapon :
          takeAction(createSuggestion(currentTurn, suspect, room, weapon))

makeAccusation ==
    /\ Len(actions) < MaxActions
    /\ \E suspect \in Character, room \in Room, weapon \in Weapon :
          takeAction(createAccusation(currentTurn, suspect, room, weapon))

makeMove ==
    /\ Len(actions) < MaxActions
    /\ \E fromSpace \in Spaces, toSpace \in Spaces :
          takeAction(createMove(currentTurn, fromSpace, toSpace))

Next ==
    \/ Lifecycle
    \/ makeSuggestion
    \/ makeAccusation
    \/ makeMove
    \/ Len(turns) < MaxTurns /\ endTurn

Spec == Init /\ [][Next]_vars

(* The game with turns only: the rotation of endTurn over every roster. *)
NextTurns ==
    \/ Lifecycle
    \/ Len(turns) < MaxRotation /\ endTurn

SpecTurns == Init /\ [][NextTurns]_vars

(* The game with the notes a player makes by hand on the first item of the  *)
(* first sheet.                                                             *)
manualNote ==
    \E ds \in {d \in DOMAIN sheets : \A e \in DOMAIN sheets : d <= e},
       card \in {c \in Card : \A d \in Card : c <= d},
       checked \in BOOLEAN :
          makeNote(ds, card, checked, FALSE, TRUE)

NextAll ==
    \/ Next
    \/ manualNote

SpecAll == Init /\ [][NextAll]_vars

(* Move.validate over every pair of spaces of a grid. *)
Grid == [posX : 0..GridMax, posY : 0..GridMax]

InitMove ==
    /\ players = <<>>
    /\ caseFile = NoCaseFile
    /\ status = NOT_STARTED
    /\ hostPlayer = None
    /\ currentSequence = 0
    /\ currentTurn = None
    /\ turns = <<>>
    /\ actions = <<>>
    /\ sheets = <<>>
    /\ result = [op |-> "Game", ret |-> "ok"]
    /\ moveCheck \in [fromSpace : Grid, toSpace : Grid, validated : {FALSE}, valid : {FALSE}]
    /\ requests = NoRequests

NextMove == validateMove

SpecMove == InitMove /\ [][NextMove]_vars

(* The deal over every case file, every order of the shuffle and one user  *)
(* more: creating, filling and starting the game, no turn taken.            *)
DealUsers == 1..(NumUsers + 1)

(* random.shuffle runs once the checks of startGame have passed: every      *)
(* order then, and no order to choose when startGame raises before it.      *)
DealShuffles(user) ==
    IF hostPlayer # None /\ startGameRaises(status, players, hostPlayer, user) = "none"
    THEN Shuffles(Len(NonCaseFileCards(caseFile)))
    ELSE {[i \in 1..Len(NonCaseFileCards(caseFile)) |-> i]}

(* The character a user joins with there: the deal does not read it, so     *)
(* every user takes a character of its own.                                 *)
RoundCharacter(u) == ((u - 1) % NumCharacters) + 1

LifecycleDeal ==
    \/ \E u \in HostUsers, cf \in createRandom : initializeGame(u, RoundCharacter(u), cf)
    \/ \E u \in DealUsers \ HostUsers :
          addPlayer(Len(players) + 1, NewPlayer(u, RoundCharacter(u)))
    \/ \E pid \in DOMAIN players : addPlayer(pid, players[pid])
    \/ \E user \in DealUsers : \E shuffle \in DealShuffles(user) : startGame(user, shuffle)

NextDeal == LifecycleDeal

SpecDeal == Init /\ [][NextDeal]_vars

(* The game with one user more and turns enough for the turn to come back  *)
(* to a player: with all characters but one held by users the rotation of  *)
(* endTurn goes round.                                                      *)
(* The shuffle leaves the cards in their order there, and every user joins  *)
(* with a character of its own: the rotation reads neither.                 *)
RoundShuffle == [i \in 1..Len(NonCaseFileCards(caseFile)) |-> i]

LifecycleRound ==
    \/ \E u \in HostUsers, cf \in CaseFileSample : initializeGame(u, RoundCharacter(u), cf)
    \/ \E u \in DealUsers \ HostUsers :
          addPlayer(Len(players) + 1, NewPlayer(u, RoundCharacter(u)))
    \/ \E pid \in DOMAIN players : addPlayer(pid, players[pid])
    \/ \E user \in DealUsers : startGame(user, RoundShuffle)

NextRound ==
    \/ LifecycleRound
    \/ makeSuggestion
    \/ makeAccusation
    \/ makeMove
    \/ Len(turns) < MaxRotation /\ endTurn

SpecRound == Init /\ [][NextRound]_vars

(* Turn.endTurn called again and again.  endTurn reads the current Turn     *)
(* only, so the Turn row it saves takes the place of the oldest one once    *)
(* MaxRotation rows exist; the current turn is the row saved last.          *)
endTurnRecycling ==
    /\ currentTurn # None
    /\ LET currentPlayer == turns[currentTurn].player
           next_player == NextPlayer(players, PlayersOf(players), currentPlayer, 1)
           slot == (currentTurn % MaxRotation) + 1
       IN IF next_player = None
          THEN /\ result' = [op |-> "endTurn", ret |-> "UnboundLocalError"]
               /\ UNCHANGED <<turns, currentTurn>>
          ELSE /\ turns' = IF slot > Len(turns)
                           THEN Append(turns, [player |-> next_player])
                           ELSE [turns EXCEPT ![slot] = [player |-> next_player]]
               /\ currentTurn' = slot
               /\ result' = [op |-> "endTurn", ret |-> "ok"]
    /\ UNCHANGED <<players, caseFile, status, hostPlayer, currentSequence, actions,
                   sheets, moveCheck, requests>>

NextFair ==
    \/ Lifecycle
    \/ endTurnRecycling

(* The players keep ending their turns: endTurn is always called again. *)
SpecFair == Init /\ [][NextFair]_vars /\ WF_vars(endTurnRecycling)

(* --------------------------- concurrent requests ---------------------- *)
(* A request loads its own Game object, works on it and saves it; every     *)
(* query and every save is a step of its own, and the steps of the requests *)
(* in flight interleave.  Game.save() writes all the fields of the object.  *)
Requests == 1..NumRequests

(* Game.objects.get: the fields of the Game row that the requests write. *)
LoadedGame ==
    [status |-> status, currentTurn |-> currentTurn, currentSequence |-> currentSequence]

AllIdle == \A r \in Requests : requests[r].pc = "idle"

(* A request of a user to join: the Game is loaded and the Player built. *)
beginAddPlayer(r, u, c) ==
    /\ requests[r].pc = "idle"
    /\ hostPlayer # None
    /\ requests' = [requests EXCEPT ![r] =
                       [NoRequest EXCEPT !.op = "addPlayer", !.pc = "loaded",
                                         !.game = LoadedGame, !.player = NewPlayer(u, c)]]
    /\ UNCHANGED <<gameVars, moveCheck>>

(* Game.addPlayer up to its two checks, which query the Player rows. *)
checkAddPlayer(r) ==
    /\ requests[r].pc = "loaded"
    /\ requests[r].op = "addPlayer"
    /\ requests' = [requests EXCEPT ![r] =
          IF isUserInGame(players, requests[r].player.user)
          THEN [@ EXCEPT !.pc = "done", !.ret = "DuplicateUser"]
          ELSE IF isCharacterInGame(players, requests[r].player.character)
          THEN [@ EXCEPT !.pc = "done", !.ret = "DuplicateCharacter"]
          ELSE [@ EXCEPT !.pc = "checked"]]
    /\ UNCHANGED <<gameVars, moveCheck>>

(* Game.addPlayer: player.save(), ds.save() and ds.addDefaultSheets(). *)
savePlayer(r) ==
    /\ requests[r].pc = "checked"
    /\ requests[r].op = "addPlayer"
    /\ players' = Append(players, [requests[r].player EXCEPT !.currentGame = TheGame])
    /\ sheets' = Append(sheets, [player |-> Len(players) + 1, items |-> addDefaultSheets])
    /\ requests' = [requests EXCEPT ![r].pc = "saved"]
    /\ UNCHANGED <<caseFile, status, hostPlayer, currentSequence, currentTurn, turns,
                   actions, result, moveCheck>>

(* Game.registerGameUpdate on the request's Game object: the sequence of    *)
(* the object plus one, then self.save().                                   *)
updateGame(r) ==
    /\ requests[r].pc = "saved"
    /\ status' = requests[r].game.status
    /\ currentTurn' = requests[r].game.currentTurn
    /\ currentSequence' = registerGameUpdate(requests[r].game.currentSequence)
    /\ requests' = [requests EXCEPT ![r].pc = "done", ![r].ret = "ok",
                        ![r].game.currentSequence = registerGameUpdate(@)]
    /\ UNCHANGED <<players, caseFile, hostPlayer, turns, actions, sheets, result, moveCheck>>

(* A request to end the turn: turn.game is loaded. *)
beginEndTurn(r) ==
    /\ requests[r].pc = "idle"
    /\ currentTurn # None
    /\ requests' = [requests EXCEPT ![r] =
                       [NoRequest EXCEPT !.op = "endTurn", !.pc = "loaded", !.game = LoadedGame]]
    /\ UNCHANGED <<gameVars, moveCheck>>

(* Turn.endTurn on the loaded Game: the next player after the player of     *)
(* its current turn, turn.save() and self.game.save().                      *)
saveEndTurn(r) ==
    /\ requests[r].pc = "loaded"
    /\ requests[r].op = "endTurn"
    /\ LET currentPlayer == turns[requests[r].game.currentTurn].player
           next_player == NextPlayer(players, PlayersOf(players), currentPlayer, 1)
       IN IF next_player = None
          THEN /\ requests' = [requests EXCEPT ![r].pc = "done", ![r].ret = "UnboundLocalError"]
               /\ UNCHANGED <<turns, currentTurn, status, currentSequence>>
          ELSE /\ turns' = Append(turns, [player |-> next_player])
               /\ currentTurn' = Len(turns) + 1
               /\ status' = requests[r].game.status
               /\ currentSequence' = requests[r].game.currentSequence
               /\ requests' = [requests EXCEPT ![r].pc = "done", ![r].ret = "ok",
                                   ![r].game.currentTurn = Len(turns) + 1]
    /\ UNCHANGED <<players, caseFile, hostPlayer, actions, sheets, result, moveCheck>>

(* A request to accuse: the Game and its current turn are loaded. *)
beginAccusation(r, www) ==
    /\ requests[r].pc = "idle"
    /\ currentTurn # None
    /\ requests' = [requests EXCEPT ![r] =
                       [NoRequest EXCEPT !.op = "Accusation", !.pc = "loaded",
                                         !.game = LoadedGame, !.whoWhatWhere = www]]
    /\ UNCHANGED <<gameVars, moveCheck>>

(* createAccusation and takeAction on the turn of the loaded Game, up to    *)
(* the writes of endGame (the Player rows, status = 2 and self.save()) or   *)
(* of loseGame (the Player row); registerGameUpdate follows.                *)
performAccusation(r) ==
    /\ requests[r].pc = "loaded"
    /\ requests[r].op = "Accusation"
    /\ LET www == requests[r].whoWhatWhere
           action == createAccusation(requests[r].game.currentTurn,
                                      www.character, www.room, www.weapon)
           row == [turn |-> action.turn, cls |-> action.cls, executed |-> FALSE]
           saved == Append(actions, row)
           player == turns[action.turn].player
       IN IF ~validate_action(saved, action) \/ ~validate(players, player, action)
          THEN /\ actions' = saved
               /\ requests' = [requests EXCEPT ![r].pc = "done",
                                   ![r].ret = "Unable to perform action"]
               /\ UNCHANGED <<players, status, currentTurn, currentSequence>>
          ELSE /\ actions' = Append(actions, [row EXCEPT !.executed = TRUE])
               /\ IF isAccusationCorrect(caseFile, action)
                  THEN /\ players' = endGame(players, player)
                       /\ status' = COMPLETE
                       /\ currentTurn' = requests[r].game.currentTurn
                       /\ currentSequence' = requests[r].game.currentSequence
                       /\ requests' = [requests EXCEPT ![r].pc = "saved",
                                           ![r].game.status = COMPLETE]
                  ELSE /\ players' = loseGame(players, player)
                       /\ requests' = [requests EXCEPT ![r].pc = "saved"]
                       /\ UNCHANGED <<status, currentTurn, currentSequence>>
    /\ UNCHANGED <<caseFile, hostPlayer, turns, sheets, result, moveCheck>>

(* The game is created, joined and started by one request after the other; *)
(* then the requests in flight run, each of them once.                      *)
LifecycleBefore ==
    /\ AllIdle
    /\ \/ \E u \in HostUsers, cf \in CaseFileSample : initializeGame(u, RoundCharacter(u), cf)
       \/ \E u \in Users \ HostUsers :
             addPlayer(Len(players) + 1, NewPlayer(u, RoundCharacter(u)))
       \/ \E pid \in DOMAIN players : addPlayer(pid, players[pid])
       \/ \E user \in Users : startGame(user, RoundShuffle)

NextConcurrent ==
    \/ LifecycleBefore
    \/ \E r \in Requests, u \in DealUsers \ HostUsers, c \in Character : beginAddPlayer(r, u, c)
    \/ \E r \in Requests : checkAddPlayer(r)
    \/ \E r \in Requests : savePlayer(r)
    \/ \E r \in Requests : updateGame(r)
    \/ \E r \in Requests : beginEndTurn(r)
    \/ \E r \in Requests : saveEndTurn(r)
    \/ \E r \in Requests, www \in CaseFileSample : beginAccusation(r, www)
    \/ \E r \in Requests : performAccusation(r)

SpecConcurrent == Init /\ [][NextConcurrent]_vars

(* ------------------------------ claims -------------------------------- *)
(* What the formulas below say about a step of takeAction: the row it added *)
(* and the player of its turn.                                              *)
LastAction == actions[Len(actions)]

Accuser == turns[currentTurn].player

AccusationInputs == [character : Character, weapon : Weapon, room : Room]

(* The executed actions of a turn obey the ordering rules. *)
Ordered ==
    \A j \in DOMAIN actions : actions[j].executed =>
        \A i \in 1..(j - 1) : (actions[i].turn = actions[j].turn /\ actions[i].executed) =>
            /\ actions[j].cls # "Move"
            /\ actions[j].cls = "Suggestion" => actions[i].cls \notin {"Suggestion", "Accusation"}
            /\ actions[j].cls = "Accusation" => actions[i].cls # "Accusation"

(* A Suggestion naming the room of the turn's player, taken on a turn whose *)
(* only action is an executed Move, is executed.                            *)
MoveThenSuggestion ==
    result'.op = "Suggestion" =>
    \A www \in AccusationInputs :
        (/\ takeAction(createSuggestion(currentTurn, www.character, www.room, www.weapon))
         /\ \E i \in DOMAIN actions :
               /\ actions[i] = [turn |-> currentTurn, cls |-> "Move", executed |-> TRUE]
               /\ \A k \in DOMAIN actions : actions[k].turn = currentTurn => k = i
         /\ Space(players[Accuser].currentSpace).spaceCollector = RoomId(www.room))
        => actions'[Len(actions')].executed

(* C1: in every reachable state the executed actions of every turn obey the *)
(* ordering rules: a Move only as the first action, a Suggestion only after *)
(* no Suggestion and no Accusation, an Accusation only after no Accusation; *)
(* and a Suggestion after a Move is executed.                               *)
C1_ActionOrder == []Ordered /\ [][MoveThenSuggestion]_vars

C1_Witness ==
    /\ Len(actions) = 2
    /\ actions[1] = [turn |-> currentTurn, cls |-> "Move", executed |-> TRUE]
    /\ actions[2] = [turn |-> currentTurn, cls |-> "Suggestion", executed |-> TRUE]

(* C2: Move.validate returns true exactly when the destination is 2 away    *)
(* along one axis and 0 along the other.                                    *)
C2_MoveRule ==
    moveCheck.validated =>
        (moveCheck.valid <=>
            LET dx == moveCheck.toSpace.posX - moveCheck.fromSpace.posX
                dy == moveCheck.toSpace.posY - moveCheck.fromSpace.posY
            IN \/ dx \in {2, -2} /\ dy = 0
               \/ dy \in {2, -2} /\ dx = 0)

(* C3: an executed Accusation that equals the case file in character,       *)
(* weapon and room leaves the game Complete, the accuser Won and every      *)
(* other player of the game Lost.                                           *)
C3_CorrectAccusation ==
    [][result'.op = "Accusation" => \A www \in AccusationInputs :
          (/\ takeAction(createAccusation(currentTurn, www.character, www.room, www.weapon))
           /\ actions'[Len(actions')].executed
           /\ www = caseFile)
          => /\ status' = COMPLETE
             /\ players'[Accuser].gameResult = WON
             /\ \A i \in DOMAIN players' :
                   (i # Accuser /\ players'[i].currentGame = TheGame)
                   => players'[i].gameResult = LOST]_vars

C3_Witness ==
    /\ result = [op |-> "Accusation", ret |-> "ok"]
    /\ status = COMPLETE
    /\ players[turns[LastAction.turn].player].gameResult = WON
    /\ \E i \in DOMAIN players : players[i].nonUserPlayer /\ players[i].gameResult = LOST

(* C4: an executed Accusation that differs from the case file in character, *)
(* weapon or room changes the accuser's result to Lost and nothing else:    *)
(* not the status, not another player's result, not the current turn and    *)
(* no player's position.                                                    *)
C4_WrongAccusation ==
    [][result'.op = "Accusation" => \A www \in AccusationInputs :
          (/\ takeAction(createAccusation(currentTurn, www.character, www.room, www.weapon))
           /\ actions'[Len(actions')].executed
           /\ www # caseFile)
          => /\ status' = status
             /\ players' = [players EXCEPT ![Accuser].gameResult = LOST]
             /\ currentTurn' = currentTurn]_vars

C4_Witness ==
    /\ result = [op |-> "Accusation", ret |-> "ok"]
    /\ status = STARTED
    /\ players[turns[LastAction.turn].player].gameResult = LOST
    /\ \E i \in DOMAIN players : players[i].currentGame = TheGame /\ players[i].gameResult = NEITHER

(* The roster of the game in primary key order, and who follows a player. *)
Roster == PlayersOf(players)

Following(p) ==
    LET k == CHOOSE i \in DOMAIN Roster : Roster[i] = p
    IN Roster[(k % Len(Roster)) + 1]

(* C5: in a started game each endTurn creates a Turn for the player after   *)
(* the current turn's player in the roster, wrapping from the last to the   *)
(* first, and makes it the current turn; so as many endTurn calls as there  *)
(* are players bring the turn back to the player who held it.               *)
C5_Rotation ==
    [][(result'.op = "endTurn" /\ status = STARTED) =>
          /\ turns' = Append(turns, [player |-> Following(turns[currentTurn].player)])
          /\ currentTurn' = Len(turns')
          /\ \A t \in DOMAIN turns' :
                t + Len(Roster) \in DOMAIN turns'
                => turns'[t + Len(Roster)].player = turns'[t].player]_vars

(* C6: the sequence counter never decreases, and every successful           *)
(* initializeGame, addPlayer, startGame and executed Accusation (endGame or *)
(* loseGame) leaves it greater than before.                                 *)
C6_SequenceGrows ==
    [][/\ currentSequence' >= currentSequence
       /\ (result'.op \in {"initializeGame", "addPlayer", "startGame", "Accusation"}
           /\ result'.ret = "ok")
          => currentSequence' > currentSequence]_vars

C6_Witness ==
    /\ result = [op |-> "Accusation", ret |-> "ok"]
    /\ status = STARTED
    /\ currentSequence >= 5

(* C7: an endTurn that changes the current turn and a Move or Suggestion    *)
(* that changes a player's current space leave the sequence counter         *)
(* greater than before.                                                     *)
C7_VisibleChangeCounted ==
    [][(/\ result'.op \in {"endTurn", "Move", "Suggestion"}
        /\ \/ currentTurn' # currentTurn
           \/ \E i \in DOMAIN players : players'[i].currentSpace # players[i].currentSpace)
       => currentSequence' > currentSequence]_vars

(* C8: the status never goes back from Started to NotStarted or from        *)
(* Complete to Started or NotStarted, and startGame on a game that is not   *)
(* NotStarted fails and leaves the status as it is.                         *)
C8_StatusForward ==
    [][/\ ~(status = STARTED /\ status' = NOT_STARTED)
       /\ ~(status = COMPLETE /\ status' \in {NOT_STARTED, STARTED})
       /\ (result'.op = "startGame" /\ status # NOT_STARTED)
          => (result'.ret = "AlreadyStarted" /\ status' = status)]_vars

C8_Witness ==
    /\ status = COMPLETE
    /\ result = [op |-> "startGame", ret |-> "AlreadyStarted"]
    /\ \E ds \in DOMAIN sheets, card \in Card : sheets[ds].items[card].manuallyChecked

(* C9: no two players of the game have the same character. *)
C9_UniqueCharacters ==
    \A i, j \in DOMAIN players :
        (i # j /\ players[i].currentGame = TheGame /\ players[j].currentGame = TheGame)
        => players[i].character # players[j].character

C9_Witness ==
    /\ status = STARTED
    /\ \A c \in Character :
          \E i \in DOMAIN players : players[i].currentGame = TheGame /\ players[i].character = c
    /\ result = [op |-> "addPlayer", ret |-> "DuplicateCharacter"]

(* The players addPlayer may be called with: a new Player of a user, or a   *)
(* Player row that exists.                                                  *)
AddPlayerInputs ==
    {<<Len(players) + 1, NewPlayer(u, c)>> : u \in Users, c \in Character}
        \cup {<<pid, players[pid]>> : pid \in DOMAIN players}

UserHasPlayer(u) ==
    /\ u # None
    /\ \E i \in DOMAIN players : players[i].currentGame = TheGame /\ players[i].user = u

CharacterClaimed(c) ==
    \E i \in DOMAIN players : players[i].currentGame = TheGame /\ players[i].character = c

(* C10: addPlayer fails with DuplicateUser when the player's user has a     *)
(* player in the game and with DuplicateCharacter when the character is     *)
(* claimed in the game, and then the roster, the detective sheets and the   *)
(* sequence counter are as before.                                          *)
C10_AddPlayerRejects ==
    [][result'.op = "addPlayer" =>
          \A in \in AddPlayerInputs : addPlayer(in[1], in[2]) =>
              /\ UserHasPlayer(in[2].user) => result'.ret = "DuplicateUser"
              /\ (~UserHasPlayer(in[2].user) /\ CharacterClaimed(in[2].character))
                 => result'.ret = "DuplicateCharacter"
              /\ result'.ret \in {"DuplicateUser", "DuplicateCharacter"}
                 => UNCHANGED <<players, sheets, currentSequence>>]_vars

C10_Witness ==
    /\ result = [op |-> "addPlayer", ret |-> "DuplicateUser"]
    /\ status = NOT_STARTED
    /\ Len(Roster) = 2

(* The errors of startGame. *)
StartGameErrors == {"AlreadyStarted", "InsufficientPlayers", "NotHost"}

(* C11: startGame fails with AlreadyStarted when the status is not          *)
(* NotStarted, with InsufficientPlayers when fewer than 2 players have      *)
(* joined and with NotHost when the requesting user is not the host's user  *)
(* (the first of these that applies); each error is raised only in its own  *)
(* case, and on a failure status, current turn, detective sheets, roster,   *)
(* turns and sequence counter are as before.                                *)
C11_StartGameRejects ==
    [][result'.op = "startGame" =>
          \A user \in Users :
              (\E shuffle \in ShuffleSample(Len(NonCaseFileCards(caseFile))) :
                  startGame(user, shuffle)) =>
              /\ status # NOT_STARTED => result'.ret = "AlreadyStarted"
              /\ (status = NOT_STARTED /\ Len(Roster) < 2)
                 => result'.ret = "InsufficientPlayers"
              /\ (status = NOT_STARTED /\ Len(Roster) >= 2 /\ players[hostPlayer].user # user)
                 => result'.ret = "NotHost"
              /\ result'.ret = "AlreadyStarted" => status # NOT_STARTED
              /\ result'.ret = "InsufficientPlayers" => Len(Roster) < 2
              /\ result'.ret = "NotHost" => players[hostPlayer].user # user
              /\ result'.ret \in StartGameErrors
                 => UNCHANGED <<status, currentTurn, sheets, players, currentSequence, turns>>]_vars

C11_Witness ==
    /\ result = [op |-> "startGame", ret |-> "NotHost"]
    /\ status = NOT_STARTED
    /\ Len(Roster) = 2
    /\ currentTurn = None

(* C12: after a successful startGame the status is Started and the current  *)
(* turn is a Turn of the game whose player is the host player and on which  *)
(* no action has been taken.                                                *)
C12_StartedWithHostTurn ==
    [][(result'.op = "startGame" /\ result'.ret = "ok") =>
          /\ status' = STARTED
          /\ currentTurn' \in DOMAIN turns'
          /\ turns'[currentTurn'].player = hostPlayer'
          /\ Count(actions', currentTurn', {"Accusation", "Suggestion", "Move"}) = 0]_vars

C12_Witness ==
    /\ result = [op |-> "startGame", ret |-> "ok"]
    /\ status = STARTED
    /\ currentTurn \in DOMAIN turns
    /\ turns[currentTurn].player = hostPlayer
    /\ actions = <<>>

(* The players of the game that hold a character, among the rows ps. *)
Holders(ps, c) == {i \in DOMAIN ps : ps[i].currentGame = TheGame /\ ps[i].character = c}

(* C13: after a successful startGame every Character is held by exactly one *)
(* player of the game; a character no joined player held is held by a new   *)
(* non-user player at the character's default space, and a character a      *)
(* joined player held gets no non-user player.                              *)
C13_EveryCharacterOnePlayer ==
    [][(result'.op = "startGame" /\ result'.ret = "ok") =>
          \A c \in Character :
              /\ Cardinality(Holders(players', c)) = 1
              /\ Holders(players, c) = {} =>
                    \A i \in Holders(players', c) :
                        /\ i \notin DOMAIN players
                        /\ players'[i].nonUserPlayer
                        /\ players'[i].user = None
                        /\ players'[i].currentSpace = defaultSpace(c)
              /\ Holders(players, c) # {} =>
                    /\ Holders(players', c) = Holders(players, c)
                    /\ \A i \in Holders(players', c) : players'[i] = players[i]]_vars

C13_Witness ==
    /\ result = [op |-> "startGame", ret |-> "ok"]
    /\ Cardinality({i \in DOMAIN players : players[i].nonUserPlayer}) = NumCharacters - 2
    /\ \A c \in Character : Cardinality(Holders(players, c)) = 1
    /\ \E i \in DOMAIN players :
          players[i].nonUserPlayer /\ players[i].currentSpace = defaultSpace(players[i].character)

(* The cards a sheet holds as dealt, and the cards of a case file. *)
DealtCards(sheet) ==
    {card \in Card : sheet.items[card].initiallyDealt /\ sheet.items[card].checked}

CaseFileCards(cf) == {cf.character, cf.weapon, cf.room}

(* C14: after a successful startGame on a game with N detective sheets and  *)
(* M cards outside the case file, every sheet holds floor(M/N) or           *)
(* ceil(M/N) items marked initiallyDealt and checked, every card outside    *)
(* the case file is marked dealt on exactly one sheet and no card of the    *)
(* case file is marked dealt on any sheet, whatever the shuffle.            *)
C14_Deal ==
    [][(result'.op = "startGame" /\ result'.ret = "ok") =>
          LET N == Len(sheets)
              M == Cardinality(Card \ CaseFileCards(caseFile))
              floor == M \div N
              ceil == (M + N - 1) \div N
          IN /\ Len(sheets') = N
             /\ \A ds \in DOMAIN sheets' :
                   /\ Cardinality(DealtCards(sheets'[ds])) \in {floor, ceil}
                   /\ \A card \in Card :
                         sheets'[ds].items[card].initiallyDealt
                         <=> sheets'[ds].items[card].checked
             /\ \A card \in Card \ CaseFileCards(caseFile) :
                   Cardinality({ds \in DOMAIN sheets' : card \in DealtCards(sheets'[ds])}) = 1
             /\ \A card \in CaseFileCards(caseFile), ds \in DOMAIN sheets' :
                   ~sheets'[ds].items[card].initiallyDealt]_vars

C14_Witness ==
    /\ result = [op |-> "startGame", ret |-> "ok"]
    /\ Len(sheets) = 3
    /\ Cardinality(DealtCards(sheets[1])) = 2
    /\ Cardinality(DealtCards(sheets[3])) = 1
    /\ DealtCards(sheets[1]) \cup DealtCards(sheets[2]) \cup DealtCards(sheets[3])
          = Card \ CaseFileCards(caseFile)

(* The space collection (room, hallway or passage) that holds a player. *)
CollectorOf(ps, player) == Space(ps[player].currentSpace).spaceCollector

(* C15: takeAction executes a Suggestion only if the room it names is the   *)
(* space collection that holds the suggesting player's current space at     *)
(* the call; a Suggestion from a hallway or from another room is rejected.  *)
C15_SuggestionInOwnRoom ==
    [][result'.op = "Suggestion" => \A www \in AccusationInputs :
          takeAction(createSuggestion(currentTurn, www.character, www.room, www.weapon))
          => /\ actions'[Len(actions')].executed
                => CollectorOf(players, Accuser) = RoomId(www.room)
             /\ CollectorOf(players, Accuser) # RoomId(www.room)
                => /\ ~actions'[Len(actions')].executed
                   /\ result'.ret = "Unable to perform action"]_vars

C15_Witness ==
    /\ result = [op |-> "Suggestion", ret |-> "Unable to perform action"]
    /\ Len(actions) = 1
    /\ ~LastAction.executed
    /\ CollectorOf(players, turns[LastAction.turn].player) \notin {RoomId(r) : r \in Room}

(* C16: after a successful Suggestion the player of the game that holds the *)
(* suggested character has its current space inside the suggested room;    *)
(* the current space of every other player, every player's result, the     *)
(* status and the current turn are as before.                               *)
C16_SuggestionMovesSuspect ==
    [][(result'.op = "Suggestion" /\ result'.ret = "ok") => \A www \in AccusationInputs :
          takeAction(createSuggestion(currentTurn, www.character, www.room, www.weapon))
          => /\ DOMAIN players' = DOMAIN players
             /\ \E i \in Holders(players, www.character) :
                   /\ CollectorOf(players', i) = RoomId(www.room)
                   /\ \A j \in DOMAIN players \ {i} :
                         players'[j].currentSpace = players[j].currentSpace
             /\ \A j \in DOMAIN players :
                   /\ players'[j].gameResult = players[j].gameResult
                   /\ players'[j].character = players[j].character
                   /\ players'[j].currentGame = players[j].currentGame
             /\ status' = status
             /\ currentTurn' = currentTurn]_vars

C16_Witness ==
    /\ result = [op |-> "Suggestion", ret |-> "ok"]
    /\ LastAction.executed
    /\ \E i \in DOMAIN players :
          /\ players[i].currentSpace # defaultSpace(players[i].character)
          /\ i # turns[LastAction.turn].player
          /\ CollectorOf(players, i) = CollectorOf(players, turns[LastAction.turn].player)

(* C17: after takeAction executes a valid Move the moving player's current  *)
(* space is the Move's toSpace, and it was the Move's fromSpace before.     *)
C17_MoveUpdatesSpace ==
    [][(result'.op = "Move" /\ result'.ret = "ok") =>
          \A fromSpace \in Spaces, toSpace \in Spaces :
              takeAction(createMove(currentTurn, fromSpace, toSpace))
              => /\ players[Accuser].currentSpace = fromSpace
                 /\ players'[Accuser].currentSpace = toSpace]_vars

(* The actions of a turn that were executed. *)
Executed(turn, classes) ==
    {i \in DOMAIN actions :
        actions[i].turn = turn /\ actions[i].cls \in classes /\ actions[i].executed}

(* C18: when takeAction rejects an action, player positions and results,    *)
(* the status, the sequence counter and the current turn are as before,     *)
(* and the rejected action does not count as an action of the turn: a       *)
(* Suggestion naming the room of the turn's player, on a turn with no       *)
(* executed Suggestion and no executed Accusation, is executed.             *)
C18_RejectedNotCounted ==
    [][/\ (result'.op \in {"Suggestion", "Accusation", "Move"}
           /\ result'.ret = "Unable to perform action")
          => UNCHANGED <<players, status, currentSequence, currentTurn>>
       /\ result'.op = "Suggestion" => \A www \in AccusationInputs :
             (/\ takeAction(createSuggestion(currentTurn, www.character, www.room, www.weapon))
              /\ Executed(currentTurn, {"Suggestion", "Accusation"}) = {}
              /\ CollectorOf(players, Accuser) = RoomId(www.room))
             => actions'[Len(actions')].executed]_vars

(* A player lost through a non-matching Accusation: Lost while the game is  *)
(* Started (endGame, the other writer of Lost, leaves the game Complete).   *)
LostByAccusation(i) == players[i].gameResult = LOST /\ status = STARTED

(* C19: a player whose result became Lost through a non-matching Accusation *)
(* does not get the result Won by any later endTurn or takeAction: no step  *)
(* takes such a player from Lost to Won.                                    *)
C19_LostNeverWins ==
    [][\A i \in DOMAIN players :
          LostByAccusation(i) => players'[i].gameResult # WON]_vars

(* The sheets of a player, and what holds of every sheet and of the sheet   *)
(* addPlayer creates.                                                       *)
SheetsOf(i) == {ds \in DOMAIN sheets : sheets[ds].player = i}

OneItemPerCard == \A ds \in DOMAIN sheets : DOMAIN sheets[ds].items = Card

NewSheetBlank ==
    (result'.op = "addPlayer" /\ result'.ret = "ok") =>
        /\ Len(sheets') = Len(sheets) + 1
        /\ \A ds \in DOMAIN sheets : sheets'[ds] = sheets[ds]
        /\ players'[sheets'[Len(sheets')].player].currentGame = TheGame
        /\ \A card \in Card :
              LET item == sheets'[Len(sheets')].items[card]
              IN ~item.checked /\ ~item.initiallyDealt /\ ~item.manuallyChecked

(* C20: in every reachable state every player of the game has exactly one   *)
(* DetectiveSheet and every DetectiveSheet has exactly one SheetItem per    *)
(* Card; a sheet created by addPlayer starts with every item unchecked, not *)
(* dealt and not manually checked.                                          *)
C20_EveryPlayerOneSheet ==
    /\ [](\A i \in DOMAIN players :
            players[i].currentGame = TheGame => Cardinality(SheetsOf(i)) = 1)
    /\ []OneItemPerCard
    /\ [][NewSheetBlank]_vars

(* C20 as it holds: every player that joined through addPlayer (the players *)
(* of users) has exactly one DetectiveSheet, the non-user players that      *)
(* startGame creates have none; the rest as stated.                         *)
C20_EveryJoinedPlayerOneSheet ==
    /\ [](\A i \in DOMAIN players :
            players[i].currentGame = TheGame =>
                Cardinality(SheetsOf(i)) = IF players[i].nonUserPlayer THEN 0 ELSE 1)
    /\ []OneItemPerCard
    /\ [][NewSheetBlank]_vars

C20_Witness ==
    /\ status = STARTED
    /\ Len(sheets) = 2
    /\ \E i \in DOMAIN players : players[i].nonUserPlayer /\ SheetsOf(i) = {}
    /\ \E i \in DOMAIN players : ~players[i].nonUserPlayer /\ Cardinality(SheetsOf(i)) = 1
    /\ \E ds \in DOMAIN sheets, card \in Card : sheets[ds].items[card].manuallyChecked

(* The players of the game whose result is Won. *)
Winners == {i \in DOMAIN players : players[i].currentGame = TheGame /\ players[i].gameResult = WON}

(* C23: once the status is Complete the outcome is final: no later          *)
(* takeAction or endTurn changes a player's result or the status, so        *)
(* exactly one player is Won and it stays the same player.                  *)
C23_OutcomeFinal ==
    /\ [](status = COMPLETE => Cardinality(Winners) = 1)
    /\ [][status = COMPLETE =>
            /\ status' = COMPLETE
            /\ \A i \in DOMAIN players : players'[i].gameResult = players[i].gameResult]_vars

(* A user has a player in the game; a user's player holds the current turn. *)
UserPlays(u) ==
    \E i \in DOMAIN players : players[i].currentGame = TheGame /\ players[i].user = u

HoldsTurn(u) == currentTurn # None /\ players[turns[currentTurn].player].user = u

(* C22: in a started game where endTurn is called again and again, every    *)
(* user's player holds the current turn again and again: the rotation does  *)
(* not get stuck on other players, also with two or more non-user players.  *)
C22_RotationFair ==
    \A u \in Users : [](((status = STARTED) /\ UserPlays(u)) => <>HoldsTurn(u))

(* C21: when requests on the same game run concurrently, each on its own    *)
(* loaded Game, the outcome is that of some serial order: every             *)
(* registerGameUpdate leaves the stored sequence counter one greater than   *)
(* it was (no lost increment), and no request's save overwrites the status, *)
(* the current turn or the sequence counter that another request wrote: an  *)
(* endTurn leaves status and sequence as stored, an addPlayer or an         *)
(* Accusation leaves the current turn as stored, and the status never goes  *)
(* back.                                                                    *)
C21_SerialOutcome ==
    [][\A r \in Requests : requests'[r] # requests[r] =>
          /\ requests[r].pc = "saved" => currentSequence' = currentSequence + 1
          /\ currentSequence' >= currentSequence
          /\ status' >= status
          /\ requests[r].op = "endTurn"
                => (status' = status /\ currentSequence' = currentSequence)
          /\ requests[r].op \in {"addPlayer", "Accusation"} => currentTurn' = currentTurn
          /\ requests[r].op = "addPlayer" => status' = status]_vars

(* C24: when two addPlayer requests for the same game interleave, at most   *)
(* one of two requests naming the same character and at most one of two     *)
(* requests of the same user succeeds, so that no two players of the game   *)
(* have the same character or the same user.                                *)
C24_JoinRulesHold ==
    /\ \A i, j \in DOMAIN players :
          (i # j /\ players[i].currentGame = TheGame /\ players[j].currentGame = TheGame)
          => /\ players[i].character # players[j].character
             /\ players[i].user = None \/ players[i].user # players[j].user
    /\ \A r, s \in Requests :
          (/\ r # s
           /\ requests[r].op = "addPlayer" /\ requests[r].pc \in {"saved", "done"}
           /\ requests[s].op = "addPlayer" /\ requests[s].pc \in {"saved", "done"}
           /\ requests[r].ret \in {"none", "ok"} /\ requests[s].ret \in {"none", "ok"})
          => /\ requests[r].player.character # requests[s].player.character
             /\ requests[r].player.user # requests[s].player.user

====
